---- MODULE Spec2Model ----
(***************************************************************************)
(* Model of CC_System/revui: the whole-slide-image viewer of views/        *)
(* MainWidget.py: the LRU tile cache (TileCache), the OpenSlide wrapper    *)
(* (WSIViewer) and the tile scheduler of MainWidget.                       *)
(*                                                                         *)
(* Nine specifications share the module:                                   *)
(*   SpecCache  one TileCache driven by a single caller; `hist` records    *)
(*              the calls made since the cache was last empty.             *)
(*   SpecLock   one TileCache shared by worker threads (get/put from       *)
(*              WSIViewer.read_tile) and the UI thread (clear from         *)
(*              WSIViewer.close), one step per statement under the lock.   *)
(*   Spec       MainWidget: open/close of a slide, zoom, overview click    *)
(*              and resize, the update timer, the scheduling pass, the     *)
(*              executor's tasks and the tile_loaded completions.          *)
(*   SpecReopen MainWidget at the initial scale: images are opened,        *)
(*              replaced and closed while decodes are in flight.           *)
(*   SpecPass   one scheduling pass, one level switch or one level round   *)
(*              trip, on a viewer state drawn from bounded sets.           *)
(*   SpecFull   the decodes and completions of one batch of dispatched     *)
(*              tiles on a viewer whose TileCache, kept in `tc`, is full   *)
(*              or nearly full.                                            *)
(*   SpecSettle one update of a single-level image followed only by the    *)
(*              decodes and completions of its tasks, under fairness.      *)
(*   SpecQueue  QueueManager and its Worker threads (views/QueueWork.py),  *)
(*              under fairness.                                            *)
(*   SpecReview ReviewManager (services/review_manager.py): set_data,      *)
(*              move_class, undo and redo.                                 *)
(* Each specification leaves the variables of the others at their idle     *)
(* value.                                                                  *)
(***************************************************************************)
EXTENDS Integers, Sequences, FiniteSets, TLC

VARIABLES
    tc,            \* SpecCache, SpecFull: the TileCache object
    hist,          \* SpecCache: calls made on tc since it was last empty
    shared,        \* SpecLock: the TileCache object shared by the threads
    lock,          \* SpecLock: holder of TileCache.lock, or NoThread
    tpc,           \* SpecLock: per thread, the statement it is at
    targ,          \* SpecLock: per thread, the arguments of its call
    tlocal,        \* SpecLock: per thread, the local variable `oldest` of put
    viewers,       \* Spec: the WSIViewer objects created so far (slide, closed, cache)
    wsi_viewer,    \* Spec: MainWidget.wsi_viewer, an index of viewers or None
    current_level, \* Spec: MainWidget.current_level
    view_scale,    \* Spec: graphics_view.transform().m11(), in tenths
    center,        \* Spec: scene point at the centre of the viewport
    timer,         \* Spec: _update_timer is running
    wsi_tile_items,\* Spec: MainWidget.wsi_tile_items, in insertion order
    pending_tasks, \* Spec: MainWidget.pending_tasks
    tasks,         \* Spec: tasks submitted to the executor and not finished
    emitted,       \* Spec: tile_loaded signals queued for the UI thread
    failures,      \* Spec: number of region reads that raised (history)
    last,          \* Spec: what the last step of the UI thread did (history)
    queue,         \* SpecQueue: QueueManager.queue
    running,       \* SpecQueue: QueueManager.running
    uipc,          \* SpecQueue: the UI thread is idle or inside add_task
    workers,       \* SpecQueue: the Worker threads created so far
    finished_sig,  \* SpecQueue: Worker.finished signals queued for the UI thread
    qlog,          \* SpecQueue: files added, cleared, started, finished (history)
    rm,            \* SpecReview: the ReviewManager object
    rm0            \* SpecReview: the labels given to set_data (history)

varsCache == <<tc, hist>>
varsLock == <<shared, lock, tpc, targ, tlocal>>
varsView == <<viewers, wsi_viewer, current_level, view_scale, center, timer,
              wsi_tile_items, pending_tasks, tasks, emitted, failures, last>>
varsQueue == <<queue, running, uipc, workers, finished_sig, qlog>>
varsReview == <<rm, rm0>>
varsRest == <<varsQueue, varsReview>>

(***************************************************************************)
(* Bounds of the model.                                                    *)
(***************************************************************************)
NumKeys == 4       \* distinct tile keys offered to the cache harnesses
NumBufs == 2       \* distinct pixel buffers
MaxCap == 3        \* largest max_size a harness cache is constructed with
MaxHist == 5       \* longest recorded call history
NumWorkers == 2    \* worker threads of SpecLock
NumLockKeys == 3   \* distinct tile keys the threads of SpecLock use
LockCap == 2       \* max_size of the cache the threads of SpecLock share

Keys == 1..NumKeys
Bufs == 1..NumBufs
None == 0          \* Python's None

(***************************************************************************)
(* Python list and dict helpers.                                           *)
(***************************************************************************)
\* list.index-like: position of the first occurrence of k in s
RECURSIVE FirstIndex(_, _, _)
FirstIndex(s, k, i) ==
    IF i > Len(s) THEN 0
    ELSE IF s[i] = k THEN i
    ELSE FirstIndex(s, k, i + 1)

\* list.remove(k) wrapped in try/except ValueError: drops the first occurrence
ListRemove(s, k) ==
    LET i == FirstIndex(s, k, 1)
    IN IF i = 0 THEN s
       ELSE SubSeq(s, 1, i - 1) \o SubSeq(s, i + 1, Len(s))

\* dict.pop(k, None): the mapping without k
DictPop(d, k) == [x \in (DOMAIN d) \ {k} |-> d[x]]

\* d[k] = v
DictSet(d, k, v) == [x \in (DOMAIN d) \cup {k} |-> IF x = k THEN v ELSE d[x]]

EmptyDict == [x \in {} |-> None]

Range(s) == {s[i] : i \in DOMAIN s}

(***************************************************************************)
(* TileCache (MainWidget.py 17-47). The three methods run under            *)
(* self.lock, so in SpecCache and Spec each is one atomic step.            *)
(***************************************************************************)
TileCache_init(max_size) ==
    [cache |-> EmptyDict, access_order |-> <<>>, max_size |-> max_size]

\* a get that returns the buffer and leaves the recency list alone
TileCache_get_norefresh(c, key) == c

\* a get that appends the key without removing it from its old place
TileCache_get_dup(c, key) ==
    IF key \in DOMAIN c.cache
    THEN [c EXCEPT !.access_order = Append(c.access_order, key)]
    ELSE c

\* the object after get(key)
TileCache_get(c, key) ==
    IF key \in DOMAIN c.cache
    THEN [c EXCEPT !.access_order = Append(ListRemove(c.access_order, key), key)]
    ELSE c

\* what get(key) returns
TileCache_get_result(c, key) ==
    IF key \in DOMAIN c.cache THEN c.cache[key] ELSE None

\* a put that evicts only when the list is longer than max_size
TileCache_put_late(c, key, value) ==
    IF key \notin DOMAIN c.cache
    THEN LET full == Len(c.access_order) > c.max_size
             oldest == c.access_order[1]
             order1 == IF full THEN Tail(c.access_order) ELSE c.access_order
             cache1 == IF full THEN DictPop(c.cache, oldest) ELSE c.cache
         IN [c EXCEPT !.cache = DictSet(cache1, key, value),
                      !.access_order = Append(order1, key)]
    ELSE c

\* a put that overwrites a present key and makes it the most recently used
TileCache_put_refresh(c, key, value) ==
    LET full == key \notin DOMAIN c.cache /\ Len(c.access_order) >= c.max_size
        oldest == c.access_order[1]
        order1 == IF full THEN Tail(c.access_order)
                  ELSE ListRemove(c.access_order, key)
        cache1 == IF full THEN DictPop(c.cache, oldest) ELSE c.cache
    IN [c EXCEPT !.cache = DictSet(cache1, key, value),
                 !.access_order = Append(order1, key)]

\* the object after put(key, value)
TileCache_put(c, key, value) ==
    IF key \notin DOMAIN c.cache
    THEN LET full == Len(c.access_order) >= c.max_size
             oldest == c.access_order[1]
             order1 == IF full THEN Tail(c.access_order) ELSE c.access_order
             cache1 == IF full THEN DictPop(c.cache, oldest) ELSE c.cache
         IN [c EXCEPT !.cache = DictSet(cache1, key, value),
                      !.access_order = Append(order1, key)]
    ELSE c

\* the object after clear()
TileCache_clear(c) ==
    [c EXCEPT !.cache = EmptyDict, !.access_order = <<>>]

(***************************************************************************)
(* SpecCache: a single caller.                                             *)
(***************************************************************************)
IdleLock ==
    /\ shared = TileCache_init(0)
    /\ lock = None
    /\ tpc = <<>>
    /\ targ = <<>>
    /\ tlocal = <<>>

IdleCache ==
    /\ tc = TileCache_init(0)
    /\ hist = <<>>

NoEvent == [kind |-> "none"]

\* QueueManager.__init__: empty queue, no worker, not running
IdleQueue ==
    /\ queue = <<>>
    /\ running = FALSE
    /\ uipc = "idle"
    /\ workers = <<>>
    /\ finished_sig = 0
    /\ qlog = [added |-> 0, clears |-> 0, cleared |-> {}, started |-> <<>>,
               done |-> <<>>]

\* ReviewManager.__init__: no patches, empty change list and stacks
IdleReview ==
    /\ rm = [label |-> <<>>, changes |-> <<>>, undo_stack |-> <<>>,
             redo_stack |-> <<>>]
    /\ rm0 = <<>>

IdleRest == IdleQueue /\ IdleReview

\* MainWidget.__init__: no slide, level 0, identity transform, nothing scheduled
IdleView ==
    /\ viewers = <<>>
    /\ wsi_viewer = None
    /\ current_level = 0
    /\ view_scale = 10
    /\ center = <<0, 0>>
    /\ timer = FALSE
    /\ wsi_tile_items = <<>>
    /\ pending_tasks = {}
    /\ tasks = <<>>
    /\ emitted = <<>>
    /\ failures = 0
    /\ last = NoEvent

InitCache ==
    /\ IdleRest
    /\ \E n \in 1..MaxCap : tc = TileCache_init(n)
    /\ hist = <<>>
    /\ IdleLock
    /\ IdleView

\* TileCache compares keys only for equality, so the caller's keys are named
\* in the order of their first use: a call uses a key of hist or the next one.
UsedKeys == {hist[i].key : i \in DOMAIN hist}
Offered(key) == key \in UsedKeys \/ key = Cardinality(UsedKeys) + 1

\* cache.get(key)
Get(key) ==
    /\ Len(hist) < MaxHist
    /\ Offered(key)
    /\ tc' = TileCache_get(tc, key)
    /\ hist' = Append(hist, [op |-> "get", key |-> key, val |-> None,
                             hit |-> key \in DOMAIN tc.cache,
                             ret |-> TileCache_get_result(tc, key)])
    /\ UNCHANGED <<varsLock, varsView, varsRest>>

\* cache.put(key, value)
Put(key, value) ==
    /\ Len(hist) < MaxHist
    /\ Offered(key)
    /\ tc' = TileCache_put(tc, key, value)
    /\ hist' = Append(hist, [op |-> "put", key |-> key, val |-> value,
                             hit |-> key \in DOMAIN tc.cache,
                             ret |-> None])
    /\ UNCHANGED <<varsLock, varsView, varsRest>>

\* cache.clear(): the cache is empty again and the history starts over
Clear ==
    /\ hist /= <<>>
    /\ tc' = TileCache_clear(tc)
    /\ hist' = <<>>
    /\ UNCHANGED <<varsLock, varsView, varsRest>>

NextCache ==
    \/ \E k \in Keys : Get(k)
    \/ \E k \in Keys, v \in Bufs : Put(k, v)
    \/ Clear

vars == <<varsCache, varsLock, varsView, varsRest>>

SpecCache == InitCache /\ [][NextCache]_vars

Present(key) == key \in DOMAIN tc.cache
LastCall == hist[Len(hist)]

\* hist is n puts of pairwise distinct keys on a cache that was empty
DistinctPuts(n) ==
    /\ Len(hist) = n
    /\ \A i \in DOMAIN hist : hist[i].op = "put"
    /\ \A i, j \in DOMAIN hist : i /= j => hist[i].key /= hist[j].key

\* C1: on a cache of capacity N that was empty, after put of N+1 distinct keys
\* and no get, the first key put is absent and the N others are present.
C1_LruEviction ==
    DistinctPuts(tc.max_size + 1) =>
        /\ ~Present(hist[1].key)
        /\ \A i \in 2..Len(hist) : Present(hist[i].key)

C1_Witness == tc.max_size >= 2 /\ DistinctPuts(tc.max_size + 1)

\* hist is put(A), put(B), put(C), get(A), put(D) on four distinct keys
RecencyScenario ==
    /\ Len(hist) = 5
    /\ <<hist[1].op, hist[2].op, hist[3].op, hist[4].op, hist[5].op>>
           = <<"put", "put", "put", "get", "put">>
    /\ hist[4].key = hist[1].key
    /\ Cardinality({hist[1].key, hist[2].key, hist[3].key, hist[5].key}) = 4

\* C2 as stated: in a capacity-2 cache, after put(A), put(B), put(C), get(A),
\* put(D), B is absent and A is present.
C2_Original ==
    (tc.max_size = 2 /\ RecencyScenario) =>
        (~Present(hist[2].key) /\ Present(hist[1].key))

\* C2 amended: the scenario needs capacity 3. There get(A) hits, put(D) evicts
\* B and leaves A, C and D present. With capacity 2, put(C) has evicted A, so
\* get(A) misses and after put(D) A and B are both absent.
C2_RecencyRefresh ==
    /\ (tc.max_size = 3 /\ RecencyScenario) =>
          /\ hist[4].hit
          /\ ~Present(hist[2].key)
          /\ Present(hist[1].key) /\ Present(hist[3].key) /\ Present(hist[5].key)
    /\ (tc.max_size = 2 /\ RecencyScenario) =>
          /\ ~hist[4].hit /\ hist[4].ret = None
          /\ ~Present(hist[1].key) /\ ~Present(hist[2].key)
          /\ Present(hist[3].key) /\ Present(hist[5].key)

C2_Witness == tc.max_size = 3 /\ RecencyScenario

\* C3: a put on a key that is present changes nothing: the keys, the buffer
\* stored for each key (so the size too) and the recency order stay as they were.
C3_PutPresentNoOp ==
    [][(/\ Len(hist') = Len(hist) + 1
        /\ hist'[Len(hist')].op = "put"
        /\ hist'[Len(hist')].key \in DOMAIN tc.cache)
       => (tc'.cache = tc.cache /\ tc'.access_order = tc.access_order)]_vars

\* a put(k, buf2) has just returned on a cache that holds another buffer for k
\* and other keys after k in the recency list
C3_Witness ==
    /\ hist /= <<>>
    /\ LastCall.op = "put" /\ LastCall.hit
    /\ Present(LastCall.key)
    /\ tc.cache[LastCall.key] /= LastCall.val
    /\ Len(tc.access_order) >= 2
    /\ tc.access_order[1] = LastCall.key

\* the list without the key k
Without(order, k) == SelectSeq(order, LAMBDA x : x /= k)

\* C21: get on an absent key returns None and changes nothing; get on a present
\* key returns the stored buffer, makes the key the last of access_order and
\* keeps the order of the other keys.
C21_GetFrame ==
    [][(/\ Len(hist') = Len(hist) + 1
        /\ hist'[Len(hist')].op = "get")
       => LET k == hist'[Len(hist')].key
              ret == hist'[Len(hist')].ret
          IN IF k \in DOMAIN tc.cache
             THEN /\ ret = tc.cache[k]
                  /\ tc'.cache = tc.cache
                  /\ tc'.max_size = tc.max_size
                  /\ Len(tc'.access_order) = Len(tc.access_order)
                  /\ tc'.access_order[Len(tc'.access_order)] = k
                  /\ Without(tc'.access_order, k) = Without(tc.access_order, k)
             ELSE ret = None /\ tc' = tc]_vars

\* a get has missed, and a later get has hit a key that was the oldest of three
C21_Witness ==
    /\ Len(hist) >= 3
    /\ \E i \in DOMAIN hist : hist[i].op = "get" /\ ~hist[i].hit
    /\ LastCall.op = "get" /\ LastCall.hit
    /\ hist[Len(hist) - 1].op = "put" /\ ~hist[Len(hist) - 1].hit
    /\ hist[Len(hist) - 1].key /= LastCall.key
    /\ Len(tc.access_order) = 3
    /\ tc.access_order[3] = LastCall.key

(***************************************************************************)
(* SpecLock: the TileCache of one WSIViewer, shared by the executor's      *)
(* worker threads, which call get and put from read_tile, and the UI       *)
(* thread, which calls clear from close. Every statement of a method is a  *)
(* step of its own; a thread enters a method's body only through           *)
(* `with self.lock`.                                                       *)
(***************************************************************************)
UiThread == 0
WorkerThreads == 1..NumWorkers
Threads == {UiThread} \cup WorkerThreads
NoThread == 0 - 1
LockKeys == 1..NumLockKeys

\* a lock that never makes a caller wait
LockFree_broken == TRUE

\* threading.Lock: `with self.lock` is entered only while nobody holds it
LockFree == lock = NoThread

InitLock ==
    /\ IdleRest
    /\ shared = TileCache_init(LockCap)
    /\ lock = NoThread
    /\ tpc = [t \in Threads |-> "idle"]
    /\ targ = [t \in Threads |-> [key |-> None, value |-> None]]
    /\ tlocal = [t \in Threads |-> None]
    /\ IdleCache
    /\ IdleView

\* the thread moves on to statement `to`
Goto(t, to) == tpc' = [tpc EXCEPT ![t] = to]

\* a method that returns without releasing the lock
Leave_keep(t, to) ==
    /\ tpc' = [tpc EXCEPT ![t] = to]
    /\ UNCHANGED lock

\* the thread leaves the `with` block (return, or an exception) and the method;
\* read_tile goes on to read_region after a get that returned None
Leave(t, to) ==
    /\ tpc' = [tpc EXCEPT ![t] = to]
    /\ lock' = NoThread

\* the pixels read_region returns for a key
Pixels(key) == key

\* read_tile: a worker calls self.cache.get(key) and reaches `with self.lock`
CallGet(t, key) ==
    /\ tpc[t] = "idle"
    /\ targ' = [targ EXCEPT ![t] = [key |-> key, value |-> None]]
    /\ Goto(t, "get_with")
    /\ UNCHANGED <<shared, lock, tlocal, varsCache, varsView, varsRest>>

\* read_tile: after a miss the worker reads the region, outside the lock, and
\* calls self.cache.put(key, arr)
CallPut(t) ==
    /\ tpc[t] = "read_region"
    /\ targ' = [targ EXCEPT ![t].value = Pixels(targ[t].key)]
    /\ Goto(t, "put_with")
    /\ UNCHANGED <<shared, lock, tlocal, varsCache, varsView, varsRest>>

\* the UI thread calls cache.clear() (WSIViewer.close)
CallClear(t) ==
    /\ tpc[t] = "idle"
    /\ Goto(t, "clear_with")
    /\ UNCHANGED <<shared, lock, targ, tlocal, varsCache, varsView, varsRest>>

\* `with self.lock:` of get, put or clear
Acquire(t) ==
    /\ tpc[t] \in {"get_with", "put_with", "clear_with"}
    /\ LockFree
    /\ lock' = t
    /\ Goto(t, CASE tpc[t] = "get_with" -> "get_if"
                 [] tpc[t] = "put_with" -> "put_if"
                 [] OTHER -> "clear_cache")
    /\ UNCHANGED <<shared, targ, tlocal, varsCache, varsView, varsRest>>

\* get: `if key in self.cache`; on a miss the method returns None
GetIf(t) ==
    /\ tpc[t] = "get_if"
    /\ IF targ[t].key \in DOMAIN shared.cache
       THEN Goto(t, "get_remove") /\ UNCHANGED lock
       ELSE Leave(t, "read_region")
    /\ UNCHANGED <<shared, targ, tlocal, varsCache, varsView, varsRest>>

\* get: `self.access_order.remove(key)` in try/except ValueError
GetRemove(t) ==
    /\ tpc[t] = "get_remove"
    /\ shared' = [shared EXCEPT !.access_order = ListRemove(@, targ[t].key)]
    /\ Goto(t, "get_append")
    /\ UNCHANGED <<lock, targ, tlocal, varsCache, varsView, varsRest>>

\* get: `self.access_order.append(key)`
GetAppend(t) ==
    /\ tpc[t] = "get_append"
    /\ shared' = [shared EXCEPT !.access_order = Append(@, targ[t].key)]
    /\ Goto(t, "get_return")
    /\ UNCHANGED <<lock, targ, tlocal, varsCache, varsView, varsRest>>

\* get: `return self.cache[key]` (a KeyError leaves the method as well)
GetReturn(t) ==
    /\ tpc[t] = "get_return"
    /\ Leave(t, "idle")
    /\ UNCHANGED <<shared, targ, tlocal, varsCache, varsView, varsRest>>

\* put: `if key not in self.cache` and `if len(self.access_order) >= self.max_size`
PutIf(t) ==
    /\ tpc[t] = "put_if"
    /\ IF targ[t].key \in DOMAIN shared.cache
       THEN Leave(t, "idle")
       ELSE /\ UNCHANGED lock
            /\ IF Len(shared.access_order) >= shared.max_size
               THEN Goto(t, "put_pop")
               ELSE Goto(t, "put_store")
    /\ UNCHANGED <<shared, targ, tlocal, varsCache, varsView, varsRest>>

\* put: `oldest = self.access_order.pop(0)` (IndexError on an empty list)
PutPop(t) ==
    /\ tpc[t] = "put_pop"
    /\ IF shared.access_order = <<>>
       THEN Leave(t, "idle") /\ UNCHANGED <<shared, tlocal>>
       ELSE /\ tlocal' = [tlocal EXCEPT ![t] = Head(shared.access_order)]
            /\ shared' = [shared EXCEPT !.access_order = Tail(@)]
            /\ Goto(t, "put_evict")
            /\ UNCHANGED lock
    /\ UNCHANGED <<targ, varsCache, varsView, varsRest>>

\* put: `self.cache.pop(oldest, None)`
PutEvict(t) ==
    /\ tpc[t] = "put_evict"
    /\ shared' = [shared EXCEPT !.cache = DictPop(@, tlocal[t])]
    /\ tlocal' = [tlocal EXCEPT ![t] = None]
    /\ Goto(t, "put_store")
    /\ UNCHANGED <<lock, targ, varsCache, varsView, varsRest>>

\* put: `self.cache[key] = value`
PutStore(t) ==
    /\ tpc[t] = "put_store"
    /\ shared' = [shared EXCEPT !.cache = DictSet(@, targ[t].key, targ[t].value)]
    /\ Goto(t, "put_append")
    /\ UNCHANGED <<lock, targ, tlocal, varsCache, varsView, varsRest>>

\* put: `self.access_order.append(key)`, the end of the `with` block
PutAppend(t) ==
    /\ tpc[t] = "put_append"
    /\ shared' = [shared EXCEPT !.access_order = Append(@, targ[t].key)]
    /\ Leave(t, "idle")
    /\ UNCHANGED <<targ, tlocal, varsCache, varsView, varsRest>>

\* clear: `self.cache.clear()`
ClearCache(t) ==
    /\ tpc[t] = "clear_cache"
    /\ shared' = [shared EXCEPT !.cache = EmptyDict]
    /\ Goto(t, "clear_order")
    /\ UNCHANGED <<lock, targ, tlocal, varsCache, varsView, varsRest>>

\* clear: `self.access_order.clear()`, the end of the `with` block
ClearOrder(t) ==
    /\ tpc[t] = "clear_order"
    /\ shared' = [shared EXCEPT !.access_order = <<>>]
    /\ Leave(t, "idle")
    /\ UNCHANGED <<targ, tlocal, varsCache, varsView, varsRest>>

NextLock ==
    \/ \E t \in WorkerThreads, k \in LockKeys : CallGet(t, k)
    \/ \E t \in WorkerThreads : CallPut(t)
    \/ CallClear(UiThread)
    \/ \E t \in Threads : Acquire(t)
    \/ \E t \in Threads : GetIf(t)
    \/ \E t \in Threads : GetRemove(t)
    \/ \E t \in Threads : GetAppend(t)
    \/ \E t \in Threads : GetReturn(t)
    \/ \E t \in Threads : PutIf(t)
    \/ \E t \in Threads : PutPop(t)
    \/ \E t \in Threads : PutEvict(t)
    \/ \E t \in Threads : PutStore(t)
    \/ \E t \in Threads : PutAppend(t)
    \/ \E t \in Threads : ClearCache(t)
    \/ \E t \in Threads : ClearOrder(t)

SpecLock == InitLock /\ [][NextLock]_vars

\* C4: whenever a thread can observe the cache (nobody is inside a method),
\* access_order holds exactly the keys of the mapping, each once, and a clear is
\* never seen half-done; the number of entries never exceeds max_size.
C4_CacheConsistent ==
    /\ Cardinality(DOMAIN shared.cache) <= shared.max_size
    /\ lock = NoThread =>
          /\ Range(shared.access_order) = DOMAIN shared.cache
          /\ Len(shared.access_order) = Cardinality(DOMAIN shared.cache)
          /\ (shared.cache = EmptyDict) <=> (shared.access_order = <<>>)

\* the UI thread is half-way through clear while one worker waits in get and
\* another in put
C4_Witness ==
    /\ tpc[UiThread] = "clear_order"
    /\ shared.access_order /= <<>>
    /\ \E t \in WorkerThreads : tpc[t] = "get_with"
    /\ \E t \in WorkerThreads : tpc[t] = "put_with"

(***************************************************************************)
(* Spec: MainWidget and the viewer it drives.                              *)
(*                                                                         *)
(* Lengths are integers in pixels of the active level; the view scale is   *)
(* kept in tenths (24 is 2.4). A tile key is <<level, x, y>>. A cache key  *)
(* of WSIViewer is <<level, x_l0, y_l0>> (tile_size is always TILE_SIZE).  *)
(* The recency order of a viewer's cache is read only when it holds        *)
(* max_size = 1600 entries, which Spec never reaches, so Spec keeps the    *)
(* set of cached keys; SpecCache and SpecLock model the order.             *)
(***************************************************************************)
TILE_SIZE == 512
MAX_TILES_PER_REQUEST == 256
MAX_TILES_ON_SCENE == 2500
MAX_WORKERS == 8
Upper == 24            \* upper = 2.4
Lower == 7             \* lower = 0.7

MaxOpens == 1          \* WSIViewer objects created in one run
MaxReopens == 2        \* WSIViewer objects created in one run of SpecReopen
MaxInFlight == 8       \* tasks submitted and completions queued at one time
MaxRunning == 1        \* workers of the executor that are busy at one time
MaxFailures == 1       \* region reads that raise in one run
ViewSize == 64         \* width and height of the viewport, in screen pixels

Slides == {1, 2}       \* the slide files that open
WideSlide == 3         \* a slide file of 64 x 64 tiles, with downsamples 1, 4, 8
FlatSlide == 4         \* a slide file of 32 x 32 tiles with a single level
BadPath == 0           \* a path that openslide.OpenSlide rejects
Scales == {5, 7, 24, 30}

\* slide.level_count, slide.level_downsamples and slide.level_dimensions of
\* the slide files: slide 1 has 4 levels of 4608, 1152, 288 and 72 pixels,
\* slide 2 has 2 levels of 1152 and 288 pixels; the downsamples are 1, 4, 16, 64.
\* The wide slide has 3 levels of 32768, 8192 and 4096 pixels, the flat slide
\* one level of 16384 pixels
LevelCount(slide) ==
    IF slide = 1 THEN 4 ELSE IF slide = WideSlide THEN 3
    ELSE IF slide = FlatSlide THEN 1 ELSE 2
Downsample(slide, level) ==
    IF slide = WideSlide /\ level = 2 THEN 8 ELSE 4 ^ level
Dimensions(slide, level) ==
    LET base == IF slide = 1 THEN 4608 ELSE IF slide = WideSlide THEN 32768
                ELSE IF slide = FlatSlide THEN 16384 ELSE 1152
    IN <<base \div Downsample(slide, level), base \div Downsample(slide, level)>>

Min(a, b) == IF a < b THEN a ELSE b
Max(a, b) == IF a > b THEN a ELSE b

\* WSIViewer accessors on the open viewer
get_level_count(v) == LevelCount(viewers[v].slide)
get_downsample(v, level) == Downsample(viewers[v].slide, level)
get_dimensions(v, level) == Dimensions(viewers[v].slide, level)

\* scene.sceneRect() after setSceneRect(0, 0, dim[0], dim[1]); the view shows
\* the centre of a scene rect that has just been set
SceneCenter(v, level) ==
    <<get_dimensions(v, level)[1] \div 2, get_dimensions(v, level)[2] \div 2>>

\* graphics_view.mapToScene(viewport().rect()).boundingRect() intersected with
\* the scene rect: a viewport of `size` screen pixels covers size / scale scene
\* pixels
VisibleRect(v, level, c, scale, size) ==
    LET half == (size * 10) \div (2 * scale)
        dim == get_dimensions(v, level)
    IN [left |-> Max(c[1] - half, 0), right |-> Min(c[1] + half, dim[1]),
        top |-> Max(c[2] - half, 0), bottom |-> Min(c[2] + half, dim[2])]

RectIsEmpty(r) == r.right <= r.left \/ r.bottom <= r.top

\* an origin taken as it is, without rounding down to the tile grid
AlignDown_asis(a) == a

\* (int(a) // tile) * tile
AlignDown(a) == (a \div TILE_SIZE) * TILE_SIZE

\* a range that stops after its first element
TileRange_first(a, b) == IF a >= b THEN <<>> ELSE <<a>>

\* range(a, b, TILE_SIZE) as a sequence
RECURSIVE TileRange(_, _)
TileRange(a, b) == IF a >= b THEN <<>> ELSE <<a>> \o TileRange(a + TILE_SIZE, b)

ItemKeys(items) == {items[i].key : i \in DOMAIN items}

\* an order that puts a candidate before the earlier ones of equal distance
Before_unstable(cands, j, i) ==
    \/ cands[j][1] < cands[i][1]
    \/ (cands[j][1] = cands[i][1] /\ j > i)

\* list.sort(key=lambda t: t[0]) is stable: candidate j comes before candidate i
\* when its distance is smaller, or equal and j was appended earlier
Before(cands, j, i) ==
    \/ cands[j][1] < cands[i][1]
    \/ (cands[j][1] = cands[i][1] /\ j < i)

\* candidates.sort(key=lambda t: t[0])
StableSort(cands) ==
    LET rank == [i \in DOMAIN cands |->
                    Cardinality({j \in DOMAIN cands : Before(cands, j, i)}) + 1]
        at == [k \in DOMAIN cands |-> CHOOSE i \in DOMAIN cands : rank[i] = k]
    IN [k \in DOMAIN cands |-> cands[at[k]]]

\* the rows of candidates <<dist2, x, y>> of update_visible_tiles, row by row;
\* dist2 is taken on doubled coordinates (4 times the code's value) so that
\* the centre of the rect stays an integer
RECURSIVE Candidates(_, _, _, _)
Candidates(u, r, xs, ys) ==
    IF ys = <<>> THEN <<>>
    ELSE LET y == Head(ys)
             row == [i \in DOMAIN xs |->
                        <<(2 * xs[i] + TILE_SIZE - (r.left + r.right)) ^ 2
                            + (2 * y + TILE_SIZE - (r.top + r.bottom)) ^ 2,
                          xs[i], y>>]
             Wanted(c) == /\ <<u.level, c[2], c[3]>> \notin ItemKeys(u.items)
                          /\ <<u.level, c[2], c[3]>> \notin u.pending
         IN SelectSeq(row, Wanted) \o Candidates(u, r, xs, Tail(ys))

\* the task closure of update_visible_tiles for candidate c: the key and the
\* level-0 origin int(x * ds), int(y * ds)
NewTask(u, c) ==
    LET ds == get_downsample(u.viewer, u.level)
    IN [key |-> <<u.level, c[2], c[3]>>, org |-> <<c[2] * ds, c[3] * ds>>,
        src |-> u.viewer, st |-> "queued", viewer |-> None, sw |-> FALSE]

\* an eviction pass that keeps no margin around the aligned viewport box
ToRemove_nomargin(key, level, x0, y0, x1, y1, margin) ==
    \/ key[1] /= level
    \/ key[2] + TILE_SIZE < x0
    \/ key[2] > x1
    \/ key[3] + TILE_SIZE < y0
    \/ key[3] > y1

\* the eviction pass of update_visible_tiles: the placed tile `key` goes into
\* to_remove
ToRemove(key, level, x0, y0, x1, y1, margin) ==
    \/ key[1] /= level
    \/ key[2] + TILE_SIZE < x0 - margin
    \/ key[2] > x1 + margin
    \/ key[3] + TILE_SIZE < y0 - margin
    \/ key[3] > y1 + margin

\* a dispatch loop without the `count >= MAX_TILES_PER_REQUEST` test
Taken_all(cands) == cands

\* the dispatch loop of update_visible_tiles stops at MAX_TILES_PER_REQUEST tasks
Taken(cands) == SubSeq(cands, 1, Min(Len(cands), MAX_TILES_PER_REQUEST))

\* a capacity guard that already thins a scene that is exactly at the ceiling
CapacityGuard_atceiling(items) ==
    LET n == Len(items)
    IN IF n >= MAX_TILES_ON_SCENE THEN SubSeq(items, n \div 3 + 1, n) ELSE items

\* the capacity guard of update_visible_tiles: above MAX_TILES_ON_SCENE the
\* first n // 3 items in insertion order are removed
CapacityGuard(items) ==
    LET n == Len(items)
    IN IF n > MAX_TILES_ON_SCENE THEN SubSeq(items, n \div 3 + 1, n) ELSE items

\* MainWidget.update_visible_tiles on the UI state u; u.submitted collects the
\* tasks given to the executor, in order
UpdateVisibleTiles(u) ==
    IF u.viewer = None THEN u
    ELSE
    LET rect == VisibleRect(u.viewer, u.level, u.center, u.scale, u.view)
        x0 == AlignDown(rect.left)
        y0 == AlignDown(rect.top)
        x1 == rect.right
        y1 == rect.bottom
        guarded == CapacityGuard(u.items)
        margin == TILE_SIZE
        Visible(it) == ~ToRemove(it.key, u.level, x0, y0, x1, y1, margin)
        kept == SelectSeq(guarded, Visible)
        u1 == [u EXCEPT !.items = kept]
        cands == StableSort(Candidates(u1, rect, TileRange(x0, x1 + TILE_SIZE),
                                       TileRange(y0, y1 + TILE_SIZE)))
        taken == Taken(cands)
        new == [i \in DOMAIN taken |-> NewTask(u1, taken[i])]
    IN IF RectIsEmpty(rect) THEN u
       ELSE [u1 EXCEPT !.pending = @ \cup {new[i].key : i \in DOMAIN new},
                       !.submitted = @ \o new]

\* the level a scale greater than or equal to upper would select
SelectLevel_inclusive(scale, level, max_level) ==
    IF scale >= Upper /\ level > 0 THEN level - 1
    ELSE IF scale <= Lower /\ level < max_level THEN level + 1
    ELSE level

\* a selector that still goes one level coarser on the coarsest level
SelectLevel_overshoot(scale, level, max_level) ==
    IF scale > Upper /\ level > 0 THEN level - 1
    ELSE IF scale < Lower /\ level <= max_level THEN level + 1
    ELSE level

\* _maybe_change_level: the level after one evaluation
SelectLevel(scale, level, max_level) ==
    IF scale > Upper /\ level > 0 THEN level - 1
    ELSE IF scale < Lower /\ level < max_level THEN level + 1
    ELSE level

\* _reload_scene_for_level: the new centre, (c * old_ds) / new_ds
Recenter(v, old_level, new_level, c) ==
    <<(c[1] * get_downsample(v, old_level)) \div get_downsample(v, new_level),
      (c[2] * get_downsample(v, old_level)) \div get_downsample(v, new_level)>>

\* every task in flight has seen the active level change
MarkSwitched(seq) == [i \in DOMAIN seq |-> [seq[i] EXCEPT !.sw = TRUE]]

RECURSIVE DoUpdate(_)

\* a level switch that keeps the items and the pending set
ReloadSceneForLevel_keep(u, old_level) ==
    IF u.viewer = None THEN u
    ELSE DoUpdate([u EXCEPT !.center = Recenter(u.viewer, old_level, u.level, u.center),
                            !.timer = FALSE,
                            !.submitted = MarkSwitched(@),
                            !.switches = @ + 1])

\* a level switch that leaves the next update to the timer
ReloadSceneForLevel_once(u, old_level) ==
    IF u.viewer = None THEN u
    ELSE [u EXCEPT !.items = <<>>,
                   !.pending = {},
                   !.center = Recenter(u.viewer, old_level, u.level, u.center),
                   !.timer = TRUE,
                   !.submitted = MarkSwitched(@),
                   !.switches = @ + 1]

\* _reload_scene_for_level(old_level), after current_level has been changed:
\* clears the scene, the items and the pending set, recentres and calls
\* request_update(force=True), which stops the timer and runs _do_update
ReloadSceneForLevel(u, old_level) ==
    IF u.viewer = None THEN u
    ELSE DoUpdate([u EXCEPT !.items = <<>>,
                            !.pending = {},
                            !.center = Recenter(u.viewer, old_level, u.level, u.center),
                            !.timer = FALSE,
                            !.submitted = MarkSwitched(@),
                            !.switches = @ + 1])

\* _maybe_change_level(view_scale)
MaybeChangeLevel(u) ==
    IF u.viewer = None THEN u
    ELSE LET new_level == SelectLevel(u.scale, u.level, get_level_count(u.viewer) - 1)
         IN IF new_level /= u.level
            THEN ReloadSceneForLevel([u EXCEPT !.level = new_level], u.level)
            ELSE u

\* _update_scale_bar_and_hud
UpdateScaleBarAndHud(u) ==
    IF u.viewer = None THEN u ELSE MaybeChangeLevel(u)

\* _do_update
DoUpdate(u) == UpdateScaleBarAndHud(UpdateVisibleTiles(u))

(***************************************************************************)
(* The steps of the UI thread.                                             *)
(***************************************************************************)
\* the state the UI thread works on when an event handler starts
UiState ==
    [viewer |-> wsi_viewer, level |-> current_level, center |-> center,
     scale |-> view_scale, timer |-> timer, items |-> wsi_tile_items,
     pending |-> pending_tasks, submitted |-> <<>>, switches |-> 0,
     view |-> ViewSize]

\* the handler returns with UI state u: the tasks it submitted are in the
\* executor's queue; `last` records the levels it went through
Return(u) ==
    /\ Len(tasks) + Len(u.submitted) + Len(emitted) <= MaxInFlight
    /\ current_level' = u.level
    /\ center' = u.center
    /\ view_scale' = u.scale
    /\ timer' = u.timer
    /\ wsi_tile_items' = u.items
    /\ pending_tasks' = u.pending
    /\ tasks' = (IF u.switches > 0 THEN MarkSwitched(tasks) ELSE tasks) \o u.submitted
    /\ emitted' = IF u.switches > 0 THEN MarkSwitched(emitted) ELSE emitted
    /\ last' = [kind |-> "update", from |-> current_level, switches |-> u.switches,
                levels |-> {u.submitted[i].key[1] : i \in DOMAIN u.submitted}]
    /\ UNCHANGED <<viewers, wsi_viewer, failures, varsCache, varsLock, varsRest>>

\* WSIViewer.close on the open viewer: slide.close() and cache.clear()
CloseViewer ==
    IF wsi_viewer = None THEN viewers
    ELSE [viewers EXCEPT ![wsi_viewer] = [@ EXCEPT !.closed = TRUE, !.cache = {}]]

\* an open_slide that closes the open image only once the new one has opened
OpenSlide_keep(path) ==
    /\ IF path = BadPath
       THEN UNCHANGED <<viewers, wsi_viewer, wsi_tile_items, pending_tasks,
                        current_level, center>>
       ELSE /\ viewers' = Append(CloseViewer,
                                 [slide |-> path, closed |-> FALSE, cache |-> {}])
            /\ wsi_viewer' = Len(viewers) + 1
            /\ current_level' = Min(2, LevelCount(path) - 1)
            /\ wsi_tile_items' = <<>>
            /\ pending_tasks' = {}
            /\ center' = <<Dimensions(path, Min(2, LevelCount(path) - 1))[1] \div 2,
                           Dimensions(path, Min(2, LevelCount(path) - 1))[2] \div 2>>
    /\ last' = [kind |-> "open", ok |-> path /= BadPath, was |-> wsi_viewer /= None]
    /\ UNCHANGED <<view_scale, timer, tasks, emitted, failures, varsCache, varsLock, varsRest>>

\* at most n WSIViewer objects are created in one run
CanOpen(path, n) == path /= BadPath => Len(viewers) < n

\* MainWidget.open_slide(file_path); fit_in_view returns at once, the scene
\* having no items after scene.clear()
OpenSlide(path) ==
    /\ IF path = BadPath
       THEN /\ viewers' = CloseViewer
            /\ wsi_viewer' = None
            /\ wsi_tile_items' = IF wsi_viewer /= None THEN <<>> ELSE wsi_tile_items
            /\ pending_tasks' = IF wsi_viewer /= None THEN {} ELSE pending_tasks
            /\ UNCHANGED <<current_level, center>>
       ELSE /\ viewers' = Append(CloseViewer,
                                 [slide |-> path, closed |-> FALSE, cache |-> {}])
            /\ wsi_viewer' = Len(viewers) + 1
            /\ current_level' = Min(2, LevelCount(path) - 1)
            /\ wsi_tile_items' = <<>>
            /\ pending_tasks' = {}
            /\ center' = <<Dimensions(path, Min(2, LevelCount(path) - 1))[1] \div 2,
                           Dimensions(path, Min(2, LevelCount(path) - 1))[2] \div 2>>
    /\ last' = [kind |-> "open", ok |-> path /= BadPath, was |-> wsi_viewer /= None]
    /\ UNCHANGED <<view_scale, timer, tasks, emitted, failures, varsCache, varsLock, varsRest>>

\* MainWidget.remove_image
RemoveImage ==
    /\ wsi_viewer /= None
    /\ viewers' = CloseViewer
    /\ wsi_viewer' = None
    /\ wsi_tile_items' = <<>>
    /\ pending_tasks' = {}
    /\ last' = [kind |-> "remove"]
    /\ UNCHANGED <<current_level, view_scale, center, timer, tasks, emitted,
                   failures, varsCache, varsLock, varsRest>>

\* _zoom_at (wheel, double click, + and -): the view scale becomes `scale` with
\* the anchor at the centre of the viewport, and request_update() starts the timer
ZoomAt(scale) ==
    /\ wsi_viewer /= None
    /\ scale /= view_scale
    /\ view_scale' = scale
    /\ timer' = TRUE
    /\ last' = NoEvent
    /\ UNCHANGED <<viewers, wsi_viewer, current_level, center, wsi_tile_items,
                   pending_tasks, tasks, emitted, failures, varsCache, varsLock,
                   varsRest>>

\* _center_from_overview(cx0, cy0): centres on a level-0 point and updates now
CenterFromOverview(cx0, cy0) ==
    /\ wsi_viewer /= None
    /\ LET ds == get_downsample(wsi_viewer, current_level)
       IN Return(DoUpdate([UiState EXCEPT !.center = <<cx0 \div ds, cy0 \div ds>>,
                                          !.timer = FALSE]))

\* the timeout of _update_timer: _do_update
TimerFires ==
    /\ timer
    /\ Return(DoUpdate([UiState EXCEPT !.timer = FALSE]))

\* resizeEvent: _update_scale_bar_and_hud
ResizeEvent ==
    /\ wsi_viewer /= None
    /\ Return(UpdateScaleBarAndHud(UiState))

(***************************************************************************)
(* The executor's workers: task() of update_visible_tiles.                 *)
(***************************************************************************)
RemoveAt(seq, i) == SubSeq(seq, 1, i - 1) \o SubSeq(seq, i + 1, Len(seq))

CacheKey(task) == <<task.key[1], task.org[1], task.org[2]>>

\* the arguments of tile_loaded.emit(tx, ty, lv, arr); pix names the viewer
\* whose slide the pixels of arr come from, stored tells whether read_tile has
\* put arr into the viewer's cache (a miss) or has taken it from there (a hit)
Completion(task, v, stored) ==
    [key |-> task.key, pix |-> v, src |-> task.src, sw |-> task.sw,
     stored |-> stored]

Reading == {i \in DOMAIN tasks : tasks[i].st = "reading"}
Queued == {i \in DOMAIN tasks : tasks[i].st = "queued"}

\* a closed WSIViewer that no running task refers to any more is collected
Collect(vs, ts) ==
    [v \in DOMAIN vs |->
        IF vs[v].closed /\ \A i \in DOMAIN ts : ts[i].viewer /= v
        THEN [vs[v] EXCEPT !.cache = {}]
        ELSE vs[v]]

\* a free worker takes the oldest queued task: it evaluates self.wsi_viewer
\* (None raises AttributeError and the task ends), and read_tile asks the
\* viewer's cache; on a hit the task emits tile_loaded, on a miss it calls
\* read_region, which raises for a level the slide does not have
TaskStart ==
    /\ Queued /= {}
    /\ Cardinality(Reading) < Min(MAX_WORKERS, MaxRunning)
    /\ LET i == CHOOSE q \in Queued : \A r \in Queued : q <= r
       IN IF wsi_viewer = None
          THEN tasks' = RemoveAt(tasks, i) /\ UNCHANGED emitted
          ELSE IF CacheKey(tasks[i]) \in viewers[wsi_viewer].cache
          THEN /\ tasks' = RemoveAt(tasks, i)
               /\ emitted' = Append(emitted, Completion(tasks[i], wsi_viewer, FALSE))
          ELSE IF tasks[i].key[1] >= get_level_count(wsi_viewer)
          THEN tasks' = RemoveAt(tasks, i) /\ UNCHANGED emitted
          ELSE /\ tasks' = [tasks EXCEPT ![i] = [@ EXCEPT !.st = "reading",
                                                          !.viewer = wsi_viewer]]
               /\ UNCHANGED emitted
    /\ last' = NoEvent
    /\ UNCHANGED <<viewers, wsi_viewer, current_level, view_scale, center, timer,
                   wsi_tile_items, pending_tasks, failures, varsCache, varsLock,
                   varsRest>>

\* a task that runs the completion handler's bookkeeping itself, on its worker
TaskFinish_direct(i) ==
    /\ i \in Reading
    /\ tasks' = RemoveAt(tasks, i)
    /\ viewers' = Collect([viewers EXCEPT ![tasks[i].viewer].cache =
                                              @ \cup {CacheKey(tasks[i])}], tasks')
    /\ emitted' = Append(emitted, Completion(tasks[i], tasks[i].viewer, TRUE))
    /\ pending_tasks' = pending_tasks \ {tasks[i].key}
    /\ last' = NoEvent
    /\ UNCHANGED <<wsi_viewer, current_level, view_scale, center, timer,
                   wsi_tile_items, failures, varsCache, varsLock, varsRest>>

\* read_region of task i returns: the pixels go into the cache of the viewer the
\* task runs on and tile_loaded is emitted
TaskFinish(i) ==
    /\ i \in Reading
    /\ tasks' = RemoveAt(tasks, i)
    /\ viewers' = Collect([viewers EXCEPT ![tasks[i].viewer].cache =
                                              @ \cup {CacheKey(tasks[i])}], tasks')
    /\ emitted' = Append(emitted, Completion(tasks[i], tasks[i].viewer, TRUE))
    /\ last' = NoEvent
    /\ UNCHANGED <<wsi_viewer, current_level, view_scale, center, timer,
                   wsi_tile_items, pending_tasks, failures, varsCache, varsLock,
                   varsRest>>

\* read_region of task i raises: the exception ends the task inside the
\* executor and nothing is emitted
TaskFails(i) ==
    /\ i \in Reading
    /\ failures < MaxFailures
    /\ failures' = failures + 1
    /\ tasks' = RemoveAt(tasks, i)
    /\ viewers' = Collect(viewers, tasks')
    /\ last' = [kind |-> "failed", key |-> tasks[i].key]
    /\ UNCHANGED <<emitted, wsi_viewer, current_level, view_scale, center,
                   timer, wsi_tile_items, pending_tasks, varsCache, varsLock,
                   varsRest>>

\* a guard that forgets to compare the level of the completion
StaleResult_nolevel(level) == wsi_viewer = None

\* the stale-result guard of _on_tile_loaded
StaleResult(level) == wsi_viewer = None \/ level /= current_level

\* a handler that places a tile only behind the tiles placed so far, in raster
\* order, and so drops a completion that arrives late
OnTileLoaded_inorder ==
    /\ emitted /= <<>>
    /\ LET e == Head(emitted)
           placed == /\ ~StaleResult(e.key[1])
                     /\ e.key \notin ItemKeys(wsi_tile_items)
                     /\ \A k \in ItemKeys(wsi_tile_items) :
                           k[3] < e.key[3] \/ (k[3] = e.key[3] /\ k[2] < e.key[2])
       IN /\ pending_tasks' = pending_tasks \ {e.key}
          /\ wsi_tile_items' = IF placed
                               THEN Append(wsi_tile_items, [key |-> e.key, pix |-> e.pix])
                               ELSE wsi_tile_items
          /\ last' = [kind |-> "loaded", key |-> e.key, sw |-> e.sw, placed |-> placed,
                      active |-> current_level, stored |-> e.stored]
    /\ emitted' = Tail(emitted)
    /\ UNCHANGED <<viewers, wsi_viewer, current_level, view_scale, center, timer,
                   tasks, failures, varsCache, varsLock, varsRest>>

\* a handler without the `key in self.wsi_tile_items` test
OnTileLoaded_twice ==
    /\ emitted /= <<>>
    /\ LET e == Head(emitted)
           placed == ~StaleResult(e.key[1])
       IN /\ pending_tasks' = pending_tasks \ {e.key}
          /\ wsi_tile_items' = IF placed
                               THEN Append(wsi_tile_items, [key |-> e.key, pix |-> e.pix])
                               ELSE wsi_tile_items
          /\ last' = [kind |-> "loaded", key |-> e.key, sw |-> e.sw, placed |-> placed,
                      active |-> current_level, stored |-> e.stored]
    /\ emitted' = Tail(emitted)
    /\ UNCHANGED <<viewers, wsi_viewer, current_level, view_scale, center, timer,
                   tasks, failures, varsCache, varsLock, varsRest>>

\* _on_tile_loaded(x, y, level, arr) for the oldest queued tile_loaded signal;
\* arr is always an ndarray, read_tile returning nothing else
OnTileLoaded ==
    /\ emitted /= <<>>
    /\ LET e == Head(emitted)
           placed == ~StaleResult(e.key[1]) /\ e.key \notin ItemKeys(wsi_tile_items)
       IN /\ pending_tasks' = pending_tasks \ {e.key}
          /\ wsi_tile_items' = IF placed
                               THEN Append(wsi_tile_items, [key |-> e.key, pix |-> e.pix])
                               ELSE wsi_tile_items
          /\ last' = [kind |-> "loaded", key |-> e.key, sw |-> e.sw, placed |-> placed,
                      active |-> current_level, stored |-> e.stored]
    /\ emitted' = Tail(emitted)
    /\ UNCHANGED <<viewers, wsi_viewer, current_level, view_scale, center, timer,
                   tasks, failures, varsCache, varsLock, varsRest>>

Init ==
    /\ IdleRest
    /\ IdleView
    /\ IdleCache
    /\ IdleLock

Next ==
    \/ \E path \in Slides \cup {BadPath} : CanOpen(path, MaxOpens) /\ OpenSlide(path)
    \/ RemoveImage
    \/ \E scale \in Scales : ZoomAt(scale)
    \/ CenterFromOverview(600, 600)
    \/ TimerFires
    \/ ResizeEvent
    \/ TaskStart
    \/ \E i \in DOMAIN tasks : TaskFinish(i)
    \/ \E i \in DOMAIN tasks : TaskFails(i)
    \/ OnTileLoaded

Spec == Init /\ [][Next]_vars

\* SpecReopen: images are opened, replaced and closed at the initial scale, with
\* forced updates from the overview; no zoom and no failing read
NextReopen ==
    \/ \E path \in Slides \cup {BadPath} : CanOpen(path, MaxReopens) /\ OpenSlide(path)
    \/ RemoveImage
    \/ CenterFromOverview(600, 600)
    \/ TaskStart
    \/ \E i \in DOMAIN tasks : TaskFinish(i)
    \/ OnTileLoaded

SpecReopen == Init /\ [][NextReopen]_vars

(***************************************************************************)
(* SpecPass: one scheduling pass, or one level round trip, on a viewer      *)
(* state drawn from bounded sets. `last` keeps the state the step started  *)
(* from.                                                                   *)
(***************************************************************************)
WideView == 800        \* a viewport of 800 screen pixels

PassSlides == {1, WideSlide}
PassScales == {5, 10, 30}
PassCenters == {<<40, 40>>, <<500, 500>>, <<992, 301>>, <<1500, 1500>>, <<4000, 4000>>}
PassTiles == {<<0, 0>>, <<1536, 0>>, <<2048, 512>>}
PassPending == {<<0, 0>>, <<512, 512>>}

\* the items of wsi_tile_items for a set of tile origins, in raster order
RECURSIVE ItemsOf(_, _, _)
ItemsOf(v, level, tiles) ==
    IF tiles = {} THEN <<>>
    ELSE LET t == CHOOSE a \in tiles :
                     \A b \in tiles : a[2] < b[2] \/ (a[2] = b[2] /\ a[1] <= b[1])
         IN <<[key |-> <<level, t[1], t[2]>>, pix |-> v]>> \o ItemsOf(v, level, tiles \ {t})

\* the first n tiles of a level of the wide slide, row by row from the origin,
\* placed in that order
CrowdItems(v, level, n) ==
    LET cols == Dimensions(WideSlide, level)[1] \div TILE_SIZE
    IN [i \in 1..n |-> [key |-> <<level, ((i - 1) % cols) * TILE_SIZE,
                                        ((i - 1) \div cols) * TILE_SIZE>>,
                        pix |-> v]]

\* viewer states with the window at its usual size; zoomed-out states of the
\* wide slide in a wide window, where more than MAX_TILES_PER_REQUEST tiles are
\* candidates; and states of the wide slide with MAX_TILES_ON_SCENE placed tiles
\* or one more, left by completions that came in after the view had moved on
PassInputs ==
    {[slide |-> sl, level |-> lv, center |-> c, scale |-> sc, view |-> ViewSize,
      tiles |-> ts, pend |-> ps, crowd |-> 0] :
        sl \in PassSlides, lv \in 0..3, c \in PassCenters, sc \in PassScales,
        ts \in SUBSET PassTiles, ps \in SUBSET PassPending}
    \cup
    {[slide |-> WideSlide, level |-> 0, center |-> c, scale |-> 1, view |-> WideView,
      tiles |-> ts, pend |-> ps, crowd |-> 0] :
        c \in {<<4000, 4000>>}, ts \in {{}, {<<0, 0>>}}, ps \in {{}, {<<512, 512>>}}}
    \cup
    {[slide |-> WideSlide, level |-> 0, center |-> c, scale |-> 10, view |-> ViewSize,
      tiles |-> {}, pend |-> ps, crowd |-> n] :
        c \in {<<40, 40>>, <<4000, 10000>>}, ps \in {{}, {<<512, 512>>}},
        n \in {MAX_TILES_ON_SCENE, MAX_TILES_ON_SCENE + 1}}

InitPass ==
    /\ IdleRest
    /\ IdleCache /\ IdleLock
    /\ \E in \in PassInputs :
        /\ in.level < LevelCount(in.slide)
        /\ in.center[1] <= Dimensions(in.slide, in.level)[1]
        /\ in.center[2] <= Dimensions(in.slide, in.level)[2]
        /\ in.tiles \cap in.pend = {}
        /\ viewers = <<[slide |-> in.slide, closed |-> FALSE, cache |-> {}]>>
        /\ wsi_viewer = 1
        /\ current_level = in.level
        /\ center = in.center
        /\ view_scale = in.scale
        /\ wsi_tile_items = IF in.crowd > 0 THEN CrowdItems(1, in.level, in.crowd)
                            ELSE ItemsOf(1, in.level, in.tiles)
        /\ pending_tasks = {<<in.level, t[1], t[2]>> : t \in in.pend}
        /\ last = [kind |-> "input", view |-> in.view]
    /\ timer = FALSE
    /\ tasks = <<>>
    /\ emitted = <<>>
    /\ failures = 0

\* update_visible_tiles on the drawn state
Pass ==
    /\ last.kind = "input"
    /\ LET u == UpdateVisibleTiles([UiState EXCEPT !.view = last.view])
       IN /\ wsi_tile_items' = u.items
          /\ pending_tasks' = u.pending
          /\ tasks' = u.submitted
    /\ last' = [kind |-> "pass", view |-> last.view, items |-> wsi_tile_items,
                pending |-> pending_tasks]
    /\ UNCHANGED <<viewers, wsi_viewer, current_level, view_scale, center, timer,
                   emitted, failures, varsCache, varsLock, varsRest>>

\* _reload_scene_for_level for a switch to the next coarser level, and again for
\* the switch back
RoundTrip ==
    /\ last.kind = "input"
    /\ current_level + 1 < get_level_count(wsi_viewer)
    /\ LET there == Recenter(wsi_viewer, current_level, current_level + 1, center)
       IN center' = Recenter(wsi_viewer, current_level + 1, current_level, there)
    /\ wsi_tile_items' = <<>>
    /\ pending_tasks' = {}
    /\ last' = [kind |-> "roundtrip", view |-> last.view, start |-> center]
    /\ UNCHANGED <<viewers, wsi_viewer, current_level, view_scale, timer, tasks,
                   emitted, failures, varsCache, varsLock, varsRest>>

\* _reload_scene_for_level for one switch from the active level to a
\* neighbouring level
SwitchLevel(new) ==
    /\ last.kind = "input"
    /\ new \in 0..(get_level_count(wsi_viewer) - 1)
    /\ current_level' = new
    /\ center' = Recenter(wsi_viewer, current_level, new, center)
    /\ wsi_tile_items' = <<>>
    /\ pending_tasks' = {}
    /\ last' = [kind |-> "switch", view |-> last.view, from |-> current_level,
                start |-> center]
    /\ UNCHANGED <<viewers, wsi_viewer, view_scale, timer, tasks, emitted, failures,
                   varsCache, varsLock, varsRest>>

NextPass ==
    \/ Pass
    \/ RoundTrip
    \/ \E new \in {current_level - 1, current_level + 1} : SwitchLevel(new)

SpecPass == InitPass /\ [][NextPass]_vars

(***************************************************************************)
(* SpecSettle: the flat slide in a wide window. One update runs on a       *)
(* viewer state drawn from bounded sets; after it no event changes the     *)
(* viewport or the level, every decode succeeds, and the workers and the   *)
(* delivery of tile_loaded are weakly fair.                                *)
(***************************************************************************)
MaxUndelivered == 2    \* tile_loaded signals queued when a worker takes a task
SettleScales == {1, 2}
SettleCenters == {<<4000, 4000>>, <<6000, 3000>>}

InitSettle ==
    /\ IdleRest
    /\ IdleCache /\ IdleLock
    /\ viewers = <<[slide |-> FlatSlide, closed |-> FALSE, cache |-> {}]>>
    /\ wsi_viewer = 1
    /\ current_level = 0
    /\ center \in SettleCenters
    /\ view_scale \in SettleScales
    /\ wsi_tile_items = <<>>
    /\ pending_tasks = {}
    /\ last = [kind |-> "input", view |-> WideView]
    /\ timer = TRUE
    /\ tasks = <<>>
    /\ emitted = <<>>
    /\ failures = 0

\* the update timer fires: _do_update on the drawn state
SettleUpdate ==
    /\ last.kind = "input"
    /\ LET u == DoUpdate([UiState EXCEPT !.view = last.view, !.timer = FALSE])
       IN /\ current_level' = u.level
          /\ center' = u.center
          /\ timer' = u.timer
          /\ wsi_tile_items' = u.items
          /\ pending_tasks' = u.pending
          /\ tasks' = u.submitted
    /\ last' = [kind |-> "pass", view |-> last.view, items |-> wsi_tile_items,
                pending |-> pending_tasks]
    /\ UNCHANGED <<viewers, wsi_viewer, view_scale, emitted, failures,
                   varsCache, varsLock, varsRest>>

\* a worker takes the next task while few signals wait for the UI thread
SettleStart == Len(emitted) < MaxUndelivered /\ TaskStart

NextSettle ==
    \/ SettleUpdate
    \/ SettleStart
    \/ \E i \in DOMAIN tasks : TaskFinish(i)
    \/ OnTileLoaded

SpecSettle ==
    /\ InitSettle
    /\ [][NextSettle]_vars
    /\ WF_vars(SettleStart)
    /\ WF_vars(\E i \in DOMAIN tasks : TaskFinish(i))
    /\ WF_vars(OnTileLoaded)

(***************************************************************************)
(* SpecFull: the wide slide at level 0 with a TileCache that is full or    *)
(* nearly full. `tc` is the cache of the open viewer, with its recency     *)
(* list. All cached tiles but the oldest are placed; the oldest and        *)
(* FullNew tiles that were never decoded have been dispatched. The         *)
(* workers decode them in any order and the completions are delivered.     *)
(***************************************************************************)
CACHE_MAX_SIZE == 1600     \* WSIViewer.__init__: TileCache(max_size=1600)
FullSlack == 2             \* the cache starts with 0..FullSlack free places
FullNew == 3               \* dispatched tiles that are not in the cache

\* the task the dispatch loop submits for the i-th tile of the wide slide
FullTask(i) ==
    LET it == CrowdItems(1, 0, i)[i]
    IN [key |-> it.key, org |-> <<it.key[2], it.key[3]>>, src |-> 1,
        st |-> "queued", viewer |-> None, sw |-> FALSE]

InitFull ==
    /\ IdleRest
    /\ IdleLock
    /\ hist = <<>>
    /\ \E n \in (CACHE_MAX_SIZE - FullSlack)..CACHE_MAX_SIZE :
        LET all == CrowdItems(1, 0, n)
            new == [j \in 1..(FullNew + 1) |->
                        FullTask(IF j = 1 THEN 1 ELSE n + j - 1)]
        IN /\ tc = [cache |-> [k \in ItemKeys(all) |-> 1],
                    access_order |-> [i \in 1..n |-> all[i].key],
                    max_size |-> CACHE_MAX_SIZE]
           /\ wsi_tile_items = SubSeq(all, 2, n)
           /\ tasks = new
           /\ pending_tasks = {new[j].key : j \in DOMAIN new}
    /\ viewers = <<[slide |-> WideSlide, closed |-> FALSE, cache |-> {}]>>
    /\ wsi_viewer = 1
    /\ current_level = 0
    /\ view_scale = 10
    /\ center = <<40, 40>>
    /\ timer = FALSE
    /\ emitted = <<>>
    /\ failures = 0
    /\ last = NoEvent

\* task i runs on a worker: read_tile asks the cache, reads the region on a
\* miss and puts the buffer into the cache, and the task emits tile_loaded
ReadTile(i) ==
    /\ i \in DOMAIN tasks
    /\ LET key == CacheKey(tasks[i])
           cached == TileCache_get_result(tc, key)
           tc1 == TileCache_get(tc, key)
       IN IF cached /= None
          THEN /\ tc' = tc1
               /\ emitted' = Append(emitted, Completion(tasks[i], wsi_viewer, FALSE))
          ELSE /\ tc' = TileCache_put(tc1, key, 1)
               /\ emitted' = Append(emitted, Completion(tasks[i], wsi_viewer, TRUE))
    /\ tasks' = RemoveAt(tasks, i)
    /\ last' = NoEvent
    /\ UNCHANGED <<hist, viewers, wsi_viewer, current_level, view_scale, center,
                   timer, wsi_tile_items, pending_tasks, failures, varsLock,
                   varsRest>>

NextFull ==
    \/ \E i \in DOMAIN tasks : ReadTile(i)
    \/ OnTileLoaded

SpecFull == InitFull /\ [][NextFull]_vars

(***************************************************************************)
(* SpecQueue: QueueManager and its Worker threads (QueueWork.py 248-301).  *)
(* The UI thread runs add_task, clear_queue and the slot on_worker_        *)
(* finished; a Worker runs the loop of Worker.run. The blocks under        *)
(* QMutexLocker are one step each. Files are numbered in the order they    *)
(* are added. The UI thread finishes a handler it has begun, and workers   *)
(* and queued signals are weakly fair.                                     *)
(***************************************************************************)
MaxFiles == 3          \* add_task calls
MaxClears == 1         \* clear_queue calls

\* add_task up to the end of the locked block: queue.append(file_path)
AddTask ==
    /\ uipc = "idle"
    /\ qlog.added < MaxFiles
    /\ queue' = Append(queue, qlog.added + 1)
    /\ qlog' = [qlog EXCEPT !.added = @ + 1]
    /\ uipc' = "start_processing"
    /\ UNCHANGED <<running, workers, finished_sig, varsReview, varsCache, varsLock,
                   varsView>>

\* a start_processing that starts a Worker whether or not one is running
StartProcessing_always ==
    /\ uipc = "start_processing"
    /\ running' = TRUE
    /\ workers' = Append(workers, [pc |-> "loop", file |-> None])
    /\ uipc' = "idle"
    /\ UNCHANGED <<queue, finished_sig, qlog, varsReview, varsCache, varsLock,
                   varsView>>

\* add_task after the locked block: start_processing()
StartProcessing ==
    /\ uipc = "start_processing"
    /\ IF ~running
       THEN /\ running' = TRUE
            /\ workers' = Append(workers, [pc |-> "loop", file |-> None])
       ELSE UNCHANGED <<running, workers>>
    /\ uipc' = "idle"
    /\ UNCHANGED <<queue, finished_sig, qlog, varsReview, varsCache, varsLock,
                   varsView>>

\* clear_queue: queue.clear() under the mutex
ClearQueue ==
    /\ uipc = "idle"
    /\ qlog.clears < MaxClears
    /\ queue' = <<>>
    /\ qlog' = [qlog EXCEPT !.cleared = @ \cup Range(queue), !.clears = @ + 1]
    /\ UNCHANGED <<running, uipc, workers, finished_sig, varsReview, varsCache,
                   varsLock, varsView>>

\* on_worker_finished, the slot of Worker.finished, on the UI thread
OnWorkerFinished ==
    /\ uipc = "idle"
    /\ finished_sig > 0
    /\ finished_sig' = finished_sig - 1
    /\ running' = FALSE
    /\ UNCHANGED <<queue, uipc, workers, qlog, varsReview, varsCache, varsLock,
                   varsView>>

\* Worker.run at the top of the loop: under the mutex it leaves the loop on an
\* empty queue, and run returns, which emits Worker.finished; otherwise it
\* pops the first file and emits task_started
WorkerTake(w) ==
    /\ w \in DOMAIN workers
    /\ workers[w].pc = "loop"
    /\ IF queue = <<>>
       THEN /\ workers' = [workers EXCEPT ![w].pc = "exited"]
            /\ finished_sig' = finished_sig + 1
            /\ UNCHANGED <<queue, qlog>>
       ELSE /\ workers' = [workers EXCEPT ![w] = [pc |-> "work", file |-> Head(queue)]]
            /\ queue' = Tail(queue)
            /\ qlog' = [qlog EXCEPT !.started = Append(@, Head(queue))]
            /\ UNCHANGED finished_sig
    /\ UNCHANGED <<running, uipc, varsReview, varsCache, varsLock, varsView>>

\* Worker.run after time.sleep: task_finished.emit(file_path), back to the loop
WorkerFinish(w) ==
    /\ w \in DOMAIN workers
    /\ workers[w].pc = "work"
    /\ workers' = [workers EXCEPT ![w] = [pc |-> "loop", file |-> None]]
    /\ qlog' = [qlog EXCEPT !.done = Append(@, workers[w].file)]
    /\ UNCHANGED <<queue, running, uipc, finished_sig, varsReview, varsCache,
                   varsLock, varsView>>

InitQueue ==
    /\ IdleQueue /\ IdleReview
    /\ IdleCache /\ IdleLock /\ IdleView

NextQueue ==
    \/ AddTask
    \/ StartProcessing
    \/ ClearQueue
    \/ OnWorkerFinished
    \/ \E w \in DOMAIN workers : WorkerTake(w)
    \/ \E w \in DOMAIN workers : WorkerFinish(w)

SpecQueue ==
    /\ InitQueue
    /\ [][NextQueue]_vars
    /\ WF_vars(StartProcessing)
    /\ WF_vars(OnWorkerFinished)
    /\ WF_vars(\E w \in DOMAIN workers : WorkerTake(w))
    /\ WF_vars(\E w \in DOMAIN workers : WorkerFinish(w))

(***************************************************************************)
(* SpecReview: ReviewManager (review_manager.py 6-96). The patches of the  *)
(* loaded slide are numbered 1..NumPatches, which stands for their unique  *)
(* patch_id (result_repo.py 55: the id ends with the row index); rm.label  *)
(* is the label field of each patch, rm0 the labels passed to set_data. A  *)
(* record keeps patch_id, old_label and new_label.                         *)
(***************************************************************************)
NumPatches == 2        \* patches of the loaded slide
MaxMoves == 3          \* records in _changes
Labels == {"ASCUS", "LSIL", "HSIL+"}
UnknownId == NumPatches + 1      \* a patch_id that no patch has

\* _find: the patch with this id, or None
RM_find(m, patch_id) ==
    IF patch_id \in DOMAIN m.label THEN patch_id ELSE None

\* set_data: new patches, empty log and stacks
RM_set_data(labels) ==
    [label |-> labels, changes |-> <<>>, undo_stack |-> <<>>, redo_stack |-> <<>>]

\* move_class
RM_move_class(m, patch_id, new_label) ==
    LET p == RM_find(m, patch_id) IN
    IF p = None \/ m.label[p] = new_label
    THEN m
    ELSE LET rec == [patch_id |-> patch_id, old_label |-> m.label[p],
                     new_label |-> new_label]
         IN  [label |-> [m.label EXCEPT ![p] = new_label],
              changes |-> Append(m.changes, rec),
              undo_stack |-> Append(m.undo_stack, rec),
              redo_stack |-> <<>>]

\* an undo that moves the record but leaves the label
RM_undo_nolabel(m) ==
    IF m.undo_stack = <<>>
    THEN m
    ELSE LET rec == m.undo_stack[Len(m.undo_stack)]
         IN  [m EXCEPT !.undo_stack = SubSeq(@, 1, Len(@) - 1),
                       !.redo_stack = Append(@, rec)]

\* undo
RM_undo(m) ==
    IF m.undo_stack = <<>>
    THEN m
    ELSE LET rec == m.undo_stack[Len(m.undo_stack)]
             p == RM_find(m, rec.patch_id)
         IN  [m EXCEPT !.undo_stack = SubSeq(@, 1, Len(@) - 1),
                       !.label = IF p /= None THEN [@ EXCEPT ![p] = rec.old_label]
                                 ELSE @,
                       !.redo_stack = Append(@, rec)]

\* redo
RM_redo(m) ==
    IF m.redo_stack = <<>>
    THEN m
    ELSE LET rec == m.redo_stack[Len(m.redo_stack)]
             p == RM_find(m, rec.patch_id)
         IN  [m EXCEPT !.redo_stack = SubSeq(@, 1, Len(@) - 1),
                       !.label = IF p /= None THEN [@ EXCEPT ![p] = rec.new_label]
                                 ELSE @,
                       !.undo_stack = Append(@, rec)]

SetData(labels) ==
    /\ rm' = RM_set_data(labels)
    /\ rm0' = labels
    /\ UNCHANGED <<varsQueue, varsCache, varsLock, varsView>>

MoveClass(patch_id, new_label) ==
    /\ Len(rm.changes) < MaxMoves
    /\ rm' = RM_move_class(rm, patch_id, new_label)
    /\ UNCHANGED <<rm0, varsQueue, varsCache, varsLock, varsView>>

Undo ==
    /\ rm' = RM_undo(rm)
    /\ UNCHANGED <<rm0, varsQueue, varsCache, varsLock, varsView>>

Redo ==
    /\ rm' = RM_redo(rm)
    /\ UNCHANGED <<rm0, varsQueue, varsCache, varsLock, varsView>>

InitReview ==
    /\ IdleReview /\ IdleQueue
    /\ IdleCache /\ IdleLock /\ IdleView

NextReview ==
    \/ \E labels \in [1..NumPatches -> Labels] : SetData(labels)
    \/ \E patch_id \in 1..UnknownId, new_label \in Labels :
          MoveClass(patch_id, new_label)
    \/ Undo
    \/ Redo

SpecReview == InitReview /\ [][NextReview]_vars

(***************************************************************************)
(* Claims on the scheduler.                                                *)
(***************************************************************************)
\* the decodes submitted to the executor whose completion _on_tile_loaded has
\* not handled yet, each with its key and the image it was dispatched for
InFlight ==
    [i \in DOMAIN tasks |-> <<tasks[i].key, tasks[i].src>>] \o
    [i \in DOMAIN emitted |-> <<emitted[i].key, emitted[i].src>>]

\* C5: at most one decode per tile key of the open image is dispatched and not
\* yet completed.
C5_OneDecodePerKey ==
    \A i, j \in DOMAIN InFlight : i /= j => InFlight[i] /= InFlight[j]

\* C6: when the region read of a dispatched tile fails, the key leaves
\* pending_tasks, so that a later pass can dispatch it again.
C6_FailedReadLeavesPending ==
    last.kind = "failed" => last.key \notin pending_tasks

\* C7 as stated: a completion whose decode saw the active level change between
\* its dispatch and its delivery adds nothing to wsi_tile_items.
C7_Original ==
    (last.kind = "loaded" /\ last.sw) => ~last.placed

\* C7 amended: a completion delivered while the active level differs from the
\* level of its key adds nothing to wsi_tile_items (a completion delivered after
\* the level has changed and come back to the key's level is placed).
C7_StaleDropped ==
    (last.kind = "loaded" /\ last.key[1] /= current_level) =>
        /\ ~last.placed
        /\ last.key \notin ItemKeys(wsi_tile_items)

\* a completion of the level left behind has just been delivered
C7_Witness ==
    /\ last.kind = "loaded" /\ last.sw
    /\ wsi_viewer /= None
    /\ last.key[1] /= current_level
    /\ ~last.placed

\* C8: one update makes at most one level transition; with 4 levels, level 2 and
\* scale 3.0 it ends at level 1.
C8_OneTransitionPerEvent ==
    last.kind = "update" =>
        /\ last.switches <= 1
        /\ (get_level_count(wsi_viewer) = 4 /\ last.from = 2 /\ view_scale = 30)
              => current_level = 1

\* C9: an update processed at a scale inside [lower, upper] makes no level
\* transition, whatever the level.
C9_HysteresisStable ==
    (last.kind = "update" /\ view_scale \in Lower..Upper) =>
        (last.switches = 0 /\ current_level = last.from)

\* updates at both ends of the band, on a level that has a finer and a coarser
\* neighbour
C9_Witness ==
    /\ last.kind = "update"
    /\ view_scale \in {Lower, Upper}
    /\ wsi_viewer /= None
    /\ current_level > 0 /\ current_level < get_level_count(wsi_viewer) - 1

\* C22: the active level of an open image is within 0..maxLevel; each evaluation
\* of an update moves the level one step finer when the scale is above upper and
\* one step coarser when it is below lower, and the update ends where the
\* selector makes no further move: on level 0 or maxLevel, or inside the band.
C22_LevelInRange ==
    /\ wsi_viewer /= None =>
           current_level \in 0..(get_level_count(wsi_viewer) - 1)
    /\ (last.kind = "update" /\ wsi_viewer /= None) =>
           /\ view_scale > Upper => /\ current_level = last.from - last.switches
                                    /\ current_level = 0 \/ last.switches = 0
           /\ view_scale < Lower =>
                 /\ current_level = last.from + last.switches
                 /\ \/ current_level = get_level_count(wsi_viewer) - 1
                    \/ last.switches = 0
           /\ view_scale \in Lower..Upper => current_level = last.from

\* updates that found the selector at the end of the range: below lower on the
\* coarsest level, or above upper on level 0, with no move left to make
C22_Witness ==
    /\ last.kind = "update"
    /\ wsi_viewer /= None
    /\ last.switches = 0
    /\ \/ view_scale < Lower /\ current_level = get_level_count(wsi_viewer) - 1
       \/ view_scale > Upper /\ current_level = 0

\* the keys that are pending or placed
KnownKeys == pending_tasks \cup ItemKeys(wsi_tile_items)

\* C31: every key in pending_tasks or wsi_tile_items has both origin coordinates
\* non-negative and a multiple of TILE_SIZE.
C31_OriginsAligned ==
    \A k \in KnownKeys :
        /\ k[2] >= 0 /\ k[2] % TILE_SIZE = 0
        /\ k[3] >= 0 /\ k[3] % TILE_SIZE = 0

\* keys are pending and placed while the left and top edge of the viewport rect
\* are off the tile grid
C31_Witness ==
    /\ wsi_viewer /= None
    /\ pending_tasks /= {}
    /\ wsi_tile_items /= <<>>
    /\ last.kind = "update"
    /\ LET r == VisibleRect(wsi_viewer, current_level, center, view_scale, ViewSize)
       IN r.left % TILE_SIZE /= 0 /\ r.top % TILE_SIZE /= 0

\* C33: an update returns after at most maxLevel level transitions, and at its
\* return the selector has no move left for the scale: neither scale > upper
\* with level > 0 nor scale < lower with level < maxLevel.
C33_UpdateSettles ==
    (last.kind = "update" /\ wsi_viewer /= None) =>
        /\ last.switches <= get_level_count(wsi_viewer) - 1
        /\ ~(view_scale > Upper /\ current_level > 0)
        /\ ~(view_scale < Lower /\ current_level < get_level_count(wsi_viewer) - 1)

\* an update that has gone through two level transitions
C33_Witness ==
    /\ last.kind = "update"
    /\ wsi_viewer /= None
    /\ last.switches = 2
    /\ current_level = 0

\* C10: an update that switches the level submits decode tasks only for the level
\* it ends on.
C10_OnlyNewLevelDispatched ==
    (last.kind = "update" /\ last.switches > 0) => last.levels \subseteq {current_level}

(***************************************************************************)
(* Claims on one scheduling pass and on recentring (SpecPass).            *)
(***************************************************************************)
\* the viewport rect the pass worked on, its aligned left and top, and the
\* distance of a tile to the centre of the rect (on doubled coordinates)
PassRect == VisibleRect(wsi_viewer, current_level, center, view_scale, last.view)
PassX0 == (PassRect.left \div TILE_SIZE) * TILE_SIZE
PassY0 == (PassRect.top \div TILE_SIZE) * TILE_SIZE
PassDist(key) ==
    (2 * key[2] + TILE_SIZE - (PassRect.left + PassRect.right)) ^ 2
        + (2 * key[3] + TILE_SIZE - (PassRect.top + PassRect.bottom)) ^ 2
RasterBefore(k1, k2) == k1[3] < k2[3] \/ (k1[3] = k2[3] /\ k1[2] < k2[2])
PriorityBefore(k1, k2) ==
    \/ PassDist(k1) < PassDist(k2)
    \/ (PassDist(k1) = PassDist(k2) /\ RasterBefore(k1, k2))
DispatchedKeys == {tasks[i].key : i \in DOMAIN tasks}

\* C11: every key a pass dispatches has its origin inside [x0, x1] x [y0, y1].
C11_OriginsInsideViewport ==
    last.kind = "pass" =>
        \A i \in DOMAIN tasks :
            /\ PassX0 <= tasks[i].key[2] /\ tasks[i].key[2] <= PassRect.right
            /\ PassY0 <= tasks[i].key[3] /\ tasks[i].key[3] <= PassRect.bottom

\* C12: a pass dispatches in ascending squared distance of the tile centre to the
\* centre of the viewport rect, and in raster order among equal distances.
C12_CenterFirstOrder ==
    last.kind = "pass" =>
        \A i, j \in DOMAIN tasks :
            i < j => PriorityBefore(tasks[i].key, tasks[j].key)

\* a pass whose dispatch order differs from raster order and has two tiles at
\* the same distance
C12_Witness ==
    /\ last.kind = "pass"
    /\ \E i, j \in DOMAIN tasks :
          i < j /\ PassDist(tasks[i].key) = PassDist(tasks[j].key)
    /\ \E i, j \in DOMAIN tasks :
          i < j /\ RasterBefore(tasks[j].key, tasks[i].key)

\* the keys update_visible_tiles enumerates: tile-aligned, of the active level,
\* neither placed nor pending
PassCandidates ==
    IF RectIsEmpty(PassRect) THEN {}
    ELSE {<<current_level, x, y>> :
            x \in {a \in PassX0..(PassRect.right + TILE_SIZE - 1) : a % TILE_SIZE = 0},
            y \in {b \in PassY0..(PassRect.bottom + TILE_SIZE - 1) : b % TILE_SIZE = 0}}
         \ (ItemKeys(wsi_tile_items) \cup last.pending)

\* C13: a pass adds at most MAX_TILES_PER_REQUEST keys to pending_tasks and
\* submits one task per added key; with more candidates than that, the first
\* MAX_TILES_PER_REQUEST in priority order are dispatched and the others are
\* neither pending nor submitted.
C13_DispatchCap ==
    last.kind = "pass" =>
        /\ Len(tasks) <= MAX_TILES_PER_REQUEST
        /\ Cardinality(DispatchedKeys) = Len(tasks)
        /\ DispatchedKeys \cap last.pending = {}
        /\ pending_tasks = last.pending \cup DispatchedKeys
        /\ DispatchedKeys \subseteq PassCandidates
        /\ Len(tasks) = Min(Cardinality(PassCandidates), MAX_TILES_PER_REQUEST)
        /\ \A c \in PassCandidates \ DispatchedKeys :
              /\ c \notin pending_tasks
              /\ \A d \in DispatchedKeys : PriorityBefore(d, c)

\* a pass with more candidates than the cap
C13_Witness ==
    /\ last.kind = "pass"
    /\ Cardinality(PassCandidates) > MAX_TILES_PER_REQUEST
    /\ Len(tasks) = MAX_TILES_PER_REQUEST
    /\ last.pending /= {}

OutsideMargin(key) ==
    \/ key[2] + TILE_SIZE < PassX0 - TILE_SIZE
    \/ key[2] > PassRect.right + TILE_SIZE
    \/ key[3] + TILE_SIZE < PassY0 - TILE_SIZE
    \/ key[3] > PassRect.bottom + TILE_SIZE

\* C18: the eviction pass removes a placed tile exactly when its level is not
\* the active level or it lies entirely outside the box grown by the margin;
\* the placed tiles it goes through are those the capacity guard has left.
C18_EvictionRule ==
    (last.kind = "pass" /\ ~RectIsEmpty(PassRect)) =>
        \A k \in ItemKeys(CapacityGuard(last.items)) :
            (k \notin ItemKeys(wsi_tile_items)) <=>
                (k[1] /= current_level \/ OutsideMargin(k))

\* a pass that removes one tile and keeps another that lies outside the viewport
\* box but inside its margin
C18_Witness ==
    /\ last.kind = "pass"
    /\ ~RectIsEmpty(PassRect)
    /\ ItemKeys(last.items) \ ItemKeys(wsi_tile_items) /= {}
    /\ \E k \in ItemKeys(wsi_tile_items) :
          k[2] > PassRect.right \/ k[3] > PassRect.bottom

\* the keys of the active level whose tile overlaps the viewport rect
Intersecting ==
    {<<current_level, x, y>> :
        x \in {a \in PassX0..PassRect.right :
                 a % TILE_SIZE = 0 /\ a < PassRect.right},
        y \in {b \in PassY0..PassRect.bottom :
                 b % TILE_SIZE = 0 /\ b < PassRect.bottom}}

\* a pass on a viewport that shows something, with fewer candidates than the cap
SmallPass ==
    /\ last.kind = "pass"
    /\ ~RectIsEmpty(PassRect)
    /\ Cardinality(PassCandidates) < MAX_TILES_PER_REQUEST

C24_CapacityGuard ==
    (last.kind = "pass" /\ ~RectIsEmpty(PassRect)) =>
        LET n == Len(last.items)
            first == IF n > MAX_TILES_ON_SCENE THEN n \div 3 ELSE 0
        IN /\ \A i \in 1..first :
                 /\ last.items[i].key \notin ItemKeys(wsi_tile_items)
                 /\ (Intersecting \subseteq PassCandidates \cup pending_tasks
                        \cup ItemKeys(wsi_tile_items)
                     /\ last.items[i].key \in Intersecting \ last.pending
                     /\ Cardinality(PassCandidates) < MAX_TILES_PER_REQUEST)
                       => last.items[i].key \in DispatchedKeys
           /\ \A i \in (first + 1)..n :
                 last.items[i].key \notin ItemKeys(wsi_tile_items)
                     => (last.items[i].key[1] /= current_level
                         \/ OutsideMargin(last.items[i].key))

\* a pass that starts with one tile more than MAX_TILES_ON_SCENE, removes the
\* first third and dispatches one of the removed tiles again
C24_Witness ==
    /\ last.kind = "pass"
    /\ ~RectIsEmpty(PassRect)
    /\ Len(last.items) = MAX_TILES_ON_SCENE + 1
    /\ \A i \in 1..(Len(last.items) \div 3) :
          last.items[i].key \notin ItemKeys(wsi_tile_items)
    /\ \E i \in 1..(Len(last.items) \div 3) : last.items[i].key \in DispatchedKeys

\* the placed tiles the eviction rule keeps
Survivors ==
    {k \in ItemKeys(last.items) : ~(k[1] /= current_level \/ OutsideMargin(k))}

\* C25: the ceiling is compared with the number of tiles that survive the
\* eviction pass: when that number is at most MAX_TILES_ON_SCENE, every tile the
\* eviction rule keeps is still placed after the pass.
C25_EvictionBeforeGuard ==
    (last.kind = "pass" /\ ~RectIsEmpty(PassRect)) =>
        (Cardinality(Survivors) <= MAX_TILES_ON_SCENE
            => Survivors \subseteq ItemKeys(wsi_tile_items))

\* C27: a completion that _on_tile_loaded discards while an image is open comes
\* from a decode that has not put its buffer into the TileCache.
C27_DiscardedNotStored ==
    (last.kind = "loaded" /\ ~last.placed /\ wsi_viewer /= None) => ~last.stored

\* C28: every tile placed on the scene is held by the TileCache of the open
\* viewer.
C28_PlacedSubsetOfCache ==
    ItemKeys(wsi_tile_items) \subseteq DOMAIN tc.cache

\* C29: the delivery of a completion whose key is placed leaves wsi_tile_items
\* as it is, and no key is ever placed twice.
C29_DuplicateDiscarded ==
    /\ [](\A i, j \in DOMAIN wsi_tile_items :
             wsi_tile_items[i].key = wsi_tile_items[j].key => i = j)
    /\ [][(/\ emitted /= <<>>
           /\ emitted' = Tail(emitted)
           /\ Head(emitted).key \in ItemKeys(wsi_tile_items))
          => wsi_tile_items' = wsi_tile_items]_vars

\* a completion of the active level has been discarded because its key is placed
C29_Witness ==
    /\ last.kind = "loaded"
    /\ ~last.placed
    /\ wsi_viewer /= None
    /\ last.key[1] = current_level
    /\ last.key \in ItemKeys(wsi_tile_items)

\* the batch of dispatched tiles has been decoded and delivered
BatchDelivered == tasks = <<>> /\ emitted = <<>>

\* C30: whatever the order in which the completions of the dispatched batch
\* arrive, once all are delivered pending_tasks is empty and the placed keys
\* are the keys placed at the start together with the keys of the batch, which
\* are the first Len(wsi_tile_items) tiles of the slide.
C30_OrderIndependent ==
    BatchDelivered =>
        /\ pending_tasks = {}
        /\ Len(wsi_tile_items) - FullNew
               \in (CACHE_MAX_SIZE - FullSlack)..CACHE_MAX_SIZE
        /\ ItemKeys(wsi_tile_items)
               = ItemKeys(CrowdItems(1, 0, Len(wsi_tile_items)))

\* the batch has been delivered with the tile dispatched first arriving last
C30_Witness ==
    /\ BatchDelivered
    /\ last.kind = "loaded"
    /\ last.placed
    /\ last.key = FullTask(1).key
    /\ wsi_tile_items[Len(wsi_tile_items)].key = last.key

\* the keys of the active level whose tile overlaps the viewport rect of the
\* wide window
SettleVisible ==
    LET r == VisibleRect(wsi_viewer, current_level, center, view_scale, WideView)
    IN {<<current_level, x, y>> :
          x \in {a \in AlignDown(r.left)..r.right : a % TILE_SIZE = 0 /\ a < r.right},
          y \in {b \in AlignDown(r.top)..r.bottom : b % TILE_SIZE = 0 /\ b < r.bottom}}

\* C34: after the update has run, with nothing changing the viewport or the level
\* any more, every tile of the active level that overlaps the viewport is
\* eventually placed.
C34_EventuallyCovered ==
    (last.kind /= "input") ~> (SettleVisible \subseteq ItemKeys(wsi_tile_items))

\* C35: every file that is in the queue is eventually finished by a Worker,
\* unless clear_queue removes it.
C35_EveryTaskProcessed ==
    \A f \in 1..MaxFiles :
        (f \in Range(queue)) ~> (f \in Range(qlog.done) \/ f \in qlog.cleared)

\* the Worker threads that have not left Worker.run
Alive == {w \in DOMAIN workers : workers[w].pc /= "exited"}

\* C36: at most one Worker runs at a time, no file is started twice, and files
\* are started in the order they were added.
C36_OneWorkerFifo ==
    /\ Cardinality(Alive) <= 1
    /\ \A i, j \in DOMAIN qlog.started :
          i < j => qlog.started[i] < qlog.started[j]

\* a second Worker has been created after the first one left, and the files
\* added so far have been started by the two
C36_Witness ==
    /\ Len(workers) = 2
    /\ workers[1].pc = "exited"
    /\ workers[2].pc = "work"
    /\ Len(qlog.started) >= 2

\* the new_label of the topmost record of the undo stack for a patch, or the
\* label the patch had at set_data
Effective(patch_id) ==
    LET recs == {i \in DOMAIN rm.undo_stack : rm.undo_stack[i].patch_id = patch_id}
    IN  IF recs = {} THEN rm0[patch_id]
        ELSE rm.undo_stack[CHOOSE i \in recs : \A j \in recs : j <= i].new_label

LabelsFollowUndoStack ==
    \A patch_id \in DOMAIN rm.label : rm.label[patch_id] = Effective(patch_id)

MoveClearsRedo ==
    \A patch_id \in DOMAIN rm.label, new_label \in Labels :
        rm.label[patch_id] /= new_label
            => RM_move_class(rm, patch_id, new_label).redo_stack = <<>>

\* C37 as stated: the labels follow the undo stack, undo then redo and redo
\* then undo give back the labels and both stacks, and move_class on a real
\* change empties the redo stack.
C37_Original ==
    /\ LabelsFollowUndoStack
    /\ RM_redo(RM_undo(rm)) = rm
    /\ RM_undo(RM_redo(rm)) = rm
    /\ MoveClearsRedo

\* C37: the labels follow the undo stack; undo on a non-empty undo stack
\* followed by redo, and redo on a non-empty redo stack followed by undo, give
\* back the labels and both stacks; move_class on a real change empties the
\* redo stack.
C37_UndoRedo ==
    /\ LabelsFollowUndoStack
    /\ rm.undo_stack /= <<>> => RM_redo(RM_undo(rm)) = rm
    /\ rm.redo_stack /= <<>> => RM_undo(RM_redo(rm)) = rm
    /\ MoveClearsRedo

\* two changes of the same patch are on the undo stack and one change has
\* been undone
C37_Witness ==
    /\ Len(rm.undo_stack) = 2
    /\ rm.undo_stack[1].patch_id = rm.undo_stack[2].patch_id
    /\ rm.redo_stack /= <<>>
    /\ rm.label /= rm0

\* C38: the change log that changes() returns and export writes equals the
\* undo stack.
C38_LogIsUndoStack == rm.changes = rm.undo_stack

(***************************************************************************)
(* Claims on opening, closing and replacing an image, and on the threads.  *)
(***************************************************************************)
\* C15: after an open_slide that fails there is no open viewer and the cache,
\* pending_tasks and wsi_tile_items are empty, whether or not an image was open:
\* every viewer is closed, and the cache of the one that was open is empty.
C15_FailedOpenKeepsNothing ==
    (last.kind = "open" /\ ~last.ok) =>
        /\ wsi_viewer = None
        /\ wsi_tile_items = <<>>
        /\ pending_tasks = {}
        /\ \A v \in DOMAIN viewers : viewers[v].closed
        /\ last.was => viewers[Len(viewers)].cache = {}

\* an open_slide has just failed on top of an open image that had decodes in
\* flight
C15_Witness ==
    /\ last.kind = "open" /\ ~last.ok /\ last.was
    /\ tasks /= <<>>
    /\ emitted /= <<>>

\* C16: after remove_image, and after open_slide replaces an image, the cache,
\* pending_tasks and wsi_tile_items hold nothing made for a previous image, and
\* after a close they stay empty until the next open_slide.
C16_NothingOfPreviousImage ==
    /\ \A i \in DOMAIN wsi_tile_items : wsi_tile_items[i].pix = wsi_viewer
    /\ wsi_viewer = None => (wsi_tile_items = <<>> /\ pending_tasks = {})
    /\ \A v \in DOMAIN viewers : viewers[v].closed => viewers[v].cache = {}

\* C32: a placed tile shows pixels of the image that is open, a task reads
\* from the image it was dispatched for, and a completion carries pixels of the
\* image its task was dispatched for.
C32_TilesOfOpenImage ==
    /\ \A i \in DOMAIN wsi_tile_items : wsi_tile_items[i].pix = wsi_viewer
    /\ \A i \in DOMAIN tasks :
          tasks[i].st = "reading" => tasks[i].viewer = tasks[i].src
    /\ \A i \in DOMAIN emitted : emitted[i].pix = emitted[i].src

\* C17: between events every key of wsi_tile_items and of pending_tasks has the
\* active level.
C17_OnlyActiveLevel ==
    \A key \in ItemKeys(wsi_tile_items) \cup pending_tasks : key[1] = current_level

\* after a level switch: tiles of the new level are placed and pending while a
\* decode of the level left behind is still in flight
C17_Witness ==
    /\ wsi_tile_items /= <<>>
    /\ pending_tasks /= {}
    /\ \E i \in DOMAIN InFlight : InFlight[i][1][1] /= current_level

\* C19: a worker does not hold the TileCache lock while it reads a region, so
\* the UI thread never waits at the lock for a decode.
C19_NoLockDuringRead ==
    \A t \in WorkerThreads : tpc[t] = "read_region" => lock /= t

\* the UI thread holds the lock while a worker is reading a region
C19_Witness ==
    /\ lock = UiThread
    /\ \E t \in WorkerThreads : tpc[t] = "read_region"

\* a task has started, finished or failed its read in this step
WorkerMoved ==
    ~ /\ Len(tasks') >= Len(tasks)
      /\ \A i \in DOMAIN tasks :
            tasks'[i].key = tasks[i].key /\ tasks'[i].st = tasks[i].st

\* C20: a step of a worker leaves current_level, wsi_tile_items and pending_tasks
\* as they are.
C20_WorkersLeaveUiState ==
    [][WorkerMoved => UNCHANGED <<current_level, wsi_tile_items, pending_tasks>>]_vars

\* a worker has reported a decode whose key is still pending and not placed
C20_Witness ==
    /\ emitted /= <<>>
    /\ emitted[1].key \in pending_tasks
    /\ emitted[1].key \notin ItemKeys(wsi_tile_items)
    /\ emitted[1].key[1] = current_level

====
